---- MODULE Spec2Model ----
(***************************************************************************)
(* A model of the NFL pick'em web application in src/app.py: two JSON      *)
(* documents on disk (users.json, picks.json), a cookie session per        *)
(* browser, and the request handlers index, check_user, login, logout,     *)
(* week_view (GET and POST) and scoreboard.                                *)
(*                                                                         *)
(* Handlers that read a document and write it back later (login, the POST  *)
(* of week_view) are two steps, so that requests of different browsers     *)
(* can overlap between the load and the save; SeqSpec is the same system   *)
(* with requests processed one at a time.  A save is one atomic step.      *)
(***************************************************************************)
EXTENDS Integers, Sequences, FiniteSets, TLC

\* ------------------------------------------------------------------ bounds
\* The clock runs from 0 to MaxNow (minutes).
MaxNow == 1
\* At most MaxRequests requests are started in one behaviour.
MaxRequests == 4

\* ------------------------------------------------------------------ inputs
Browsers == {"b1", "b2"}

\* Strings the code trims are sequences of characters.
UsernameInputs == {<<" ">>, <<"a", " ">>, <<"b">>}
PasswordInputs == {<< >>, <<" ">>, <<"x">>}
Salts == {1}

Weeks == {1, 2}


\* The games as they really are: week, kickoff minute, the two teams.
WorldGames ==
    {[id |-> "101", week |-> 1, kickoff |-> 0, teams |-> <<"A", "B">>],
     [id |-> "102", week |-> 1, kickoff |-> 1, teams |-> <<"C", "D">>],
     [id |-> "201", week |-> 2, kickoff |-> 1, teams |-> <<"A", "C">>]}

WorldGame(g) == CHOOSE w \in WorldGames : w.id = g

\* ------------------------------------------------------------ dictionaries
\* A Python dict / JSON object is a function on its keys.
EmptyDict == << >>
Get(d, k, default) == IF k \in DOMAIN d THEN d[k] ELSE default
Put(d, k, v) == [x \in (DOMAIN d) \cup {k} |-> IF x = k THEN v ELSE d[x]]
Pop(d, k) == [x \in (DOMAIN d) \ {k} |-> d[x]]

\* Every dict with keys among K and, at key k, a value of V[k].
Dicts(K, V) ==
    UNION {{f \in [S -> UNION {V[k] : k \in K}] : \A k \in S : f[k] \in V[k]} :
              S \in SUBSET K}

\* str.strip(): leading and trailing whitespace removed.
RECURSIVE lstrip(_)
lstrip(s) == IF s # << >> /\ Head(s) = " " THEN lstrip(Tail(s)) ELSE s

RECURSIVE rstrip(_)
rstrip(s) ==
    IF s # << >> /\ s[Len(s)] = " " THEN rstrip(SubSeq(s, 1, Len(s) - 1)) ELSE s

strip(s) == rstrip(lstrip(s))

\* str(week) and int(week_str)
str(week) == IF week = 1 THEN "1" ELSE "2"
int(week_str) == IF week_str = "1" THEN 1 ELSE 2

PICKS_FILE == "picks.json"
USERS_FILE == "users.json"

VARIABLES
    users,      \* content of users.json: username -> password hash
    picks,      \* content of picks.json: week -> username -> game_id -> team_id
    session,    \* per browser, the Flask session dict
    pc,         \* per browser, the position of its request in flight
    req,        \* per browser, the locals of its request in flight; at
                \* "done", the locals at the return and the response
    now,        \* the wall clock
    nreq        \* requests started so far

vars == <<users, picks, session, pc, req, now, nreq>>

\* A save that merges instead of overwriting: what is in the file and not
\* in the document given, or given empty, stays.
save_json_merge(filename, data) ==
    IF filename = USERS_FILE THEN data
    ELSE [w \in DOMAIN picks \cup DOMAIN data |->
            IF w \notin DOMAIN data THEN picks[w]
            ELSE IF w \notin DOMAIN picks THEN data[w]
            ELSE [u \in DOMAIN picks[w] \cup DOMAIN data[w] |->
                    IF u \in DOMAIN data[w]
                           /\ (u \notin DOMAIN picks[w] \/ data[w][u] # << >>)
                    THEN data[w][u] ELSE picks[w][u]]]

\* load_json returns the parsed document; save_json overwrites the file with
\* the whole document it is given.
load_json(filename) == IF filename = USERS_FILE THEN users ELSE picks
save_json(filename, data) == data

\* ------------------------------------------------------------ passwords
\* werkzeug's salted hash: the salt is kept with the digest, and the
\* verifier recomputes the digest with the stored salt.
Digest(salt, password) == <<salt, password>>
generate_password_hash(password, salt) ==
    [salt |-> salt, digest |-> Digest(salt, password)]
\* A verifier that takes any password for any account.
check_password_hash_any(pwhash, password) == pwhash.salt \in Salts

check_password_hash(pwhash, password) ==
    Digest(pwhash.salt, password) = pwhash.digest

\* ------------------------------------------------------------ the schedule
\* An event's 'date' text names a minute, with or without a seconds field.
\* strptime with "%Y-%m-%dT%H:%MZ" parses the first and raises ValueError on
\* the second.
DateFormats == {"%H:%MZ", "%H:%M:%SZ"}
\* A parser that reads the minute out of either format.
strptime_lenient(date) == [ok |-> TRUE, value |-> date.minute]

strptime(date) ==
    IF date.fmt = "%H:%MZ" THEN [ok |-> TRUE, value |-> date.minute]
    ELSE [ok |-> FALSE]

Event(w, fmt, completed, flagged) ==
    [id |-> w.id,
     date |-> [minute |-> w.kickoff, fmt |-> fmt],
     completed |-> completed,
     competitors |-> <<[team |-> [id |-> w.teams[1]], winner |-> flagged = 1],
                       [team |-> [id |-> w.teams[2]], winner |-> flagged = 2]>>]

\* What the API may deliver for one game: scheduled (either date format),
\* or completed with the first, the second or no competitor flagged winner.
EventVariants(w) ==
    {Event(w, f, FALSE, 0) : f \in DateFormats}
        \cup {Event(w, "%H:%MZ", TRUE, x) : x \in 0..2}

\* The responses of one week: any of its games may be missing.
Responses ==
    [week \in Weeks |->
        LET all == UNION {EventVariants(w) : w \in {x \in WorldGames : x.week = week}}
        IN  {[events |-> E] : E \in {S \in SUBSET all :
                \A e1, e2 \in S : e1.id = e2.id => e1 = e2}}]

\* get_espn_schedule: the API's response, or {'events': []} on any failure.
get_espn_schedule(week) == Responses[week] \cup {[events |-> {}]}

\* determine_winners: game id -> team id of the flagged competitor of each
\* completed event (the last one flagged, when several are).
determine_winners(games) ==
    LET flagged(e) == {i \in DOMAIN e.competitors : e.competitors[i].winner}
        done == {e \in games.events : e.completed /\ flagged(e) # {}}
        ev(id) == CHOOSE e \in done : e.id = id
        lastOf(S) == CHOOSE i \in S : \A j \in S : j <= i
    IN  [id \in {e.id : e \in done} |->
            ev(id).competitors[lastOf(flagged(ev(id)))].team.id]

\* ------------------------------------------------------------ request inputs
\* The login form: the username field as typed, the password field as typed
\* or missing.
LoginForms ==
    {f \in Dicts({"username", "password"},
                 [k \in {"username", "password"} |->
                     IF k = "username" THEN UsernameInputs ELSE PasswordInputs]) :
        "username" \in DOMAIN f}

\* The teams the forms of the model pick for a game.
Choices(g) ==
    IF g = "102" THEN {WorldGame(g).teams[1], WorldGame(g).teams[2]}
    ELSE {WorldGame(g).teams[1]}

\* The picks form of a week's page: game_id -> team_id for any of the
\* week's games.
PickForms(week) ==
    LET ids == {w.id : w \in {x \in WorldGames : x.week = week}}
    IN  Dicts(ids, [g \in ids |-> Choices(g)])

CheckUserBodies == Dicts({"username"}, [k \in {"username"} |-> UsernameInputs])

Init ==
    /\ users = EmptyDict
    /\ picks = EmptyDict
    /\ session = [b \in Browsers |-> EmptyDict]
    /\ pc = [b \in Browsers |-> "idle"]
    /\ req = [b \in Browsers |-> EmptyDict]
    /\ now = 0
    /\ nreq = 0

\* A browser sends a request when it has none in flight.
CanStart(b) == pc[b] = "idle" /\ nreq < MaxRequests

\* No request is in flight.
Quiet == \A b \in Browsers : pc[b] = "idle"

Goto(b, label, locals) ==
    /\ pc' = [pc EXCEPT ![b] = label]
    /\ req' = [req EXCEPT ![b] = locals]

\* The handler returns: the response is on its way to the browser.
Respond(b, r) == Goto(b, "done", r)

\* The browser has the response and may send its next request.
receive(b) ==
    /\ pc[b] = "done"
    /\ Goto(b, "idle", EmptyDict)
    /\ UNCHANGED <<users, picks, session, now, nreq>>

\* ------------------------------------------------------------------ index
index(b) ==
    /\ CanStart(b)
    /\ nreq' = nreq + 1
    /\ IF "user" \notin DOMAIN session[b]
       THEN Respond(b, [kind |-> "index", outcome |-> "login_page"])
       ELSE Respond(b, [kind |-> "index", outcome |-> "redirect_week"])
    /\ UNCHANGED <<users, picks, session, now>>

\* ------------------------------------------------------------- check_user
check_user(b, data) ==
    /\ CanStart(b)
    /\ nreq' = nreq + 1
    /\ LET username == strip(Get(data, "username", << >>))
       IN  IF username = << >>
           THEN Respond(b, [kind |-> "check_user", outcome |-> "400"])
           ELSE Respond(b, [kind |-> "check_user", outcome |-> "200",
                            username |-> username,
                            exists |-> username \in DOMAIN load_json(USERS_FILE)])
    /\ UNCHANGED <<users, picks, session, now>>

\* ------------------------------------------------------------------ login
\* A validation that checks the password for presence only.
login_rejects_missing(username, form) ==
    \/ username = << >>
    \/ "password" \notin DOMAIN form

\* Line 104, `not username or not password`: the username is the trimmed
\* field, the password the field as sent (None when missing).
login_rejects(username, form) ==
    \/ username = << >>
    \/ "password" \notin DOMAIN form
    \/ form["password"] = << >>

\* Lines 101-108: read the form, validate, load users.json.
login_load(b, form) ==
    /\ CanStart(b)
    /\ nreq' = nreq + 1
    /\ LET username == strip(Get(form, "username", << >>))
       IN  IF login_rejects(username, form)
           THEN Respond(b, [kind |-> "login", outcome |-> "required",
                            form |-> form])
           ELSE Goto(b, "login_loaded",
                     [form |-> form, username |-> username,
                      password |-> form["password"],
                      users |-> load_json(USERS_FILE)])
    /\ UNCHANGED <<users, picks, session, now>>

\* A login that takes a wrong password as a new registration.
login_decide_reregister(loaded, username, password, salt, sess) ==
    IF username \in DOMAIN loaded
           /\ Digest(loaded[username].salt, password) = loaded[username].digest
    THEN [save |-> FALSE, users |-> loaded,
          session |-> Put(sess, "user", username), outcome |-> "ok"]
    ELSE [save |-> TRUE,
          users |-> Put(loaded, username, generate_password_hash(password, salt)),
          session |-> Put(sess, "user", username),
          outcome |-> "created"]

\* Lines 110-122 on the loaded document: what is saved (if anything), the
\* session afterwards, and the outcome.
login_decide(loaded, username, password, salt, sess) ==
    IF username \notin DOMAIN loaded
    THEN [save |-> TRUE,
          users |-> Put(loaded, username, generate_password_hash(password, salt)),
          session |-> Put(sess, "user", username),
          outcome |-> "created"]
    ELSE IF check_password_hash(loaded[username], password)
    THEN [save |-> FALSE, users |-> loaded,
          session |-> Put(sess, "user", username), outcome |-> "ok"]
    ELSE [save |-> FALSE, users |-> loaded,
          session |-> sess, outcome |-> "incorrect_password"]

\* Lines 110-124: register or verify, save users.json, set the session.
login_finish(b) ==
    /\ pc[b] = "login_loaded"
    /\ \E salt \in Salts :
        LET r == req[b]
            d == login_decide(r.users, r.username, r.password, salt, session[b])
        IN  /\ users' = IF d.save THEN save_json(USERS_FILE, d.users) ELSE users
            /\ session' = [session EXCEPT ![b] = d.session]
            /\ Respond(b, [kind |-> "login", outcome |-> d.outcome])
    /\ UNCHANGED <<picks, now, nreq>>

\* ----------------------------------------------------------------- logout
logout(b) ==
    /\ CanStart(b)
    /\ nreq' = nreq + 1
    /\ session' = [session EXCEPT ![b] = Pop(session[b], "user")]
    /\ Respond(b, [kind |-> "logout", outcome |-> "redirect"])
    /\ UNCHANGED <<users, picks, now>>

\* -------------------------------------------------------------- week_view
\* A copy in which the user's entry always starts empty.
with_entries_reset(all_data, week_str, user) ==
    Put(all_data, week_str,
        Put(Get(all_data, week_str, << >>), user, << >>))

\* Lines 139-143: the loaded document with the (week, user) entry created
\* empty when it is missing. This is the request's own copy.
with_entries(all_data, week_str, user) ==
    LET week_data == Get(all_data, week_str, EmptyDict)
    IN  Put(all_data, week_str,
            Put(week_data, user, Get(week_data, user, EmptyDict)))

\* The 'date' of each event of a response, by game id.
event_dates(schedule) ==
    [id \in {e.id : e \in schedule.events} |->
        (CHOOSE e \in schedule.events : e.id = id).date]

\* Lines 149-155: game id -> kickoff, for the events whose date parses.
game_start_times(dates) ==
    [id \in {g \in DOMAIN dates : strptime(dates[g]).ok} |->
        strptime(dates[id]).value]

\* Line 145: the event dates a fetch of the week's schedule can yield.
fetched_dates ==
    [week \in Weeks |->
        {event_dates(schedule) : schedule \in get_espn_schedule(week)}]

\* A lock that starts after the kickoff minute rather than at it.
pick_open_at_kickoff(start_times, game_id, now_) ==
    game_id \notin DOMAIN start_times \/ now_ <= start_times[game_id]

\* Lines 159-160: of the fetched dates, the loop over the form looks up those
\* of the submitted games only; the request's locals keep these.
looked_up_dates ==
    [week \in Weeks |->
        [form \in PickForms(week) |->
            {[g \in DOMAIN dates \cap DOMAIN form |-> dates[g]] :
                dates \in fetched_dates[week]}]]

\* Line 161: `not kickoff or now < kickoff`.
pick_open(start_times, game_id, now_) ==
    game_id \notin DOMAIN start_times \/ now_ < start_times[game_id]

\* Line 162: the pick goes into the user's entry.
store_pick(user_picks, game_id, team_id) == Put(user_picks, game_id, team_id)

\* A loop in which a blocked pick removes the stored pick of its game.
RECURSIVE process_form_unpick(_, _, _, _, _)
process_form_unpick(acc, form, todo, start_times, now_) ==
    IF todo = {} THEN acc
    ELSE LET game_id == CHOOSE g \in todo : TRUE
             next == IF game_id \notin DOMAIN start_times
                            \/ now_ < start_times[game_id]
                     THEN [user_picks |->
                               Put(acc.user_picks, game_id, form[game_id]),
                           saved_count |-> acc.saved_count + 1,
                           blocked_count |-> acc.blocked_count]
                     ELSE [user_picks |->
                               [g \in DOMAIN acc.user_picks \ {game_id} |->
                                   acc.user_picks[g]],
                           saved_count |-> acc.saved_count,
                           blocked_count |-> acc.blocked_count + 1]
         IN  process_form_unpick(next, form, todo \ {game_id}, start_times, now_)

\* Lines 157-165: the loop over the form's items.
RECURSIVE process_form(_, _, _, _, _)
process_form(acc, form, todo, start_times, now_) ==
    IF todo = {} THEN acc
    ELSE LET game_id == CHOOSE g \in todo : TRUE
             next == IF pick_open(start_times, game_id, now_)
                     THEN [user_picks |->
                               store_pick(acc.user_picks, game_id, form[game_id]),
                           saved_count |-> acc.saved_count + 1,
                           blocked_count |-> acc.blocked_count]
                     ELSE [user_picks |-> acc.user_picks,
                           saved_count |-> acc.saved_count,
                           blocked_count |-> acc.blocked_count + 1]
         IN  process_form(next, form, todo \ {game_id}, start_times, now_)

\* A page view that writes its copy, with the entries it created, back.
week_view_get_saving(b, week) ==
    /\ pc[b] = "idle" /\ nreq < MaxRequests
    /\ nreq' = nreq + 1
    /\ IF "user" \notin DOMAIN session[b]
       THEN /\ picks' = picks
            /\ pc' = [pc EXCEPT ![b] = "done"]
            /\ req' = [req EXCEPT ![b] =
                           [kind |-> "week_view", outcome |-> "redirect"]]
       ELSE LET user == session[b]["user"]
                week_data == IF str(week) \in DOMAIN picks
                             THEN picks[str(week)] ELSE << >>
                user_picks == IF user \in DOMAIN week_data
                              THEN week_data[user] ELSE << >>
            IN  /\ picks' = Put(picks, str(week), Put(week_data, user, user_picks))
                /\ pc' = [pc EXCEPT ![b] = "done"]
                /\ req' = [req EXCEPT ![b] =
                               [kind |-> "week_view", outcome |-> "page",
                                user_picks |-> user_picks]]
    /\ UNCHANGED <<users, session, now>>

\* GET /week/<week>, lines 133-145 and 176-181: nothing is saved. The fetched
\* schedule goes to the template only.
week_view_get(b, week) ==
    /\ CanStart(b)
    /\ nreq' = nreq + 1
    /\ IF "user" \notin DOMAIN session[b]
       THEN Respond(b, [kind |-> "week_view", outcome |-> "redirect"])
       ELSE LET user == session[b]["user"]
                all_data == with_entries(load_json(PICKS_FILE), str(week), user)
            IN  Respond(b, [kind |-> "week_view", outcome |-> "page",
                            user_picks |-> Get(all_data[str(week)], user, EmptyDict)])
    /\ UNCHANGED <<users, picks, session, now>>

\* POST /week/<week>, lines 133-146: the session check, the load of
\* picks.json, the schedule fetch and the reading of the clock.
week_view_post_load(b, week, form) ==
    /\ CanStart(b)
    /\ nreq' = nreq + 1
    /\ IF "user" \notin DOMAIN session[b]
       THEN Respond(b, [kind |-> "week_view", outcome |-> "redirect"])
       ELSE \E dates \in looked_up_dates[week][form] :
              LET user == session[b]["user"]
              IN  Goto(b, "submit_loaded",
                       [user |-> user, week |-> week, form |-> form,
                        all_data |->
                            with_entries(load_json(PICKS_FILE), str(week), user),
                        dates |-> dates,
                        now |-> now])
    /\ UNCHANGED <<users, picks, session, now>>

\* Lines 148-167 on the request's copy: the merged document and the counts.
submit_result(r) ==
    LET week_str == str(r.week)
        done == process_form([user_picks |-> r.all_data[week_str][r.user],
                              saved_count |-> 0, blocked_count |-> 0],
                             r.form, DOMAIN r.form,
                             game_start_times(r.dates), r.now)
    IN  [all_data |-> Put(r.all_data, week_str,
                          Put(r.all_data[week_str], r.user, done.user_picks)),
         saved_count |-> done.saved_count,
         blocked_count |-> done.blocked_count]

\* POST /week/<week>, lines 148-174: merge the form into the request's copy,
\* save the whole copy, report the counts.
week_view_post_save(b) ==
    /\ pc[b] = "submit_loaded"
    /\ LET r == req[b]
           done == submit_result(r)
       IN  /\ picks' = save_json(PICKS_FILE, done.all_data)
           /\ Respond(b, [kind |-> "submit", outcome |-> "saved",
                          week |-> r.week,
                          saved_count |-> done.saved_count,
                          blocked_count |-> done.blocked_count])
    /\ UNCHANGED <<users, session, now, nreq>>

\* ------------------------------------------------------------- scoreboard
\* Lines 209-210: the winner maps a fetch of the week's schedule can yield.
fetched_winners ==
    [week \in Weeks |->
        {determine_winners(schedule) : schedule \in get_espn_schedule(week)}]

\* A score that counts every pick on a game that has a winner.
RECURSIVE week_score_decided(_, _, _)
week_score_decided(player_picks, winners, todo) ==
    IF todo = {} THEN 0
    ELSE LET game_id == CHOOSE g \in todo : TRUE
         IN  (IF game_id \in DOMAIN winners THEN 1 ELSE 0)
                 + week_score_decided(player_picks, winners, todo \ {game_id})

\* Lines 225-229: one player's score in one week.
RECURSIVE week_score(_, _, _)
week_score(player_picks, winners, todo) ==
    IF todo = {} THEN 0
    ELSE LET game_id == CHOOSE g \in todo : TRUE
             is_win == game_id \in DOMAIN winners
                           /\ winners[game_id] = player_picks[game_id]
         IN  (IF is_win THEN 1 ELSE 0)
                 + week_score(player_picks, winners, todo \ {game_id})

\* Lines 221-244: the players of one week, added to the totals.
RECURSIVE tally_players(_, _, _, _)
tally_players(season_totals, week_picks, winners, todo) ==
    IF todo = {} THEN season_totals
    ELSE LET player == CHOOSE p \in todo : TRUE
             seen == IF player \in DOMAIN season_totals THEN season_totals
                     ELSE Put(season_totals, player,
                              [correct |-> 0, weeks_played |-> 0])
             score == week_score(week_picks[player], winners,
                                 DOMAIN week_picks[player])
             added == Put(seen, player,
                          [correct |-> seen[player].correct + score,
                           weeks_played |-> seen[player].weeks_played + 1])
         IN  tally_players(added, week_picks, winners, todo \ {player})

\* Lines 208-244: the loop over the stored weeks.
RECURSIVE tally_weeks(_, _, _, _)
tally_weeks(season_totals, all_data, winners_of, todo) ==
    IF todo = {} THEN season_totals
    ELSE LET week_str == CHOOSE w \in todo : TRUE
             added == tally_players(season_totals, all_data[week_str],
                                    winners_of[week_str],
                                    DOMAIN all_data[week_str])
         IN  tally_weeks(added, all_data, winners_of, todo \ {week_str})

\* GET /scoreboard, lines 185-261: the session check, the load of picks.json
\* and, for every stored week, the fetch of its schedule, its winners and the
\* scores against them. The selected player's statistics and the two-week
\* snapshot are further views of the same loop and are left out.
scoreboard(b) ==
    /\ CanStart(b)
    /\ nreq' = nreq + 1
    /\ IF "user" \notin DOMAIN session[b]
       THEN Respond(b, [kind |-> "scoreboard", outcome |-> "redirect"])
       ELSE LET all_data == load_json(PICKS_FILE)
            IN  \E winners_of \in [DOMAIN all_data ->
                                      UNION {fetched_winners[w] : w \in Weeks}] :
                    /\ \A w \in DOMAIN all_data :
                           winners_of[w] \in fetched_winners[int(w)]
                    /\ Respond(b, [kind |-> "scoreboard", outcome |-> "page",
                                   all_data |-> all_data,
                                   winners |-> winners_of,
                                   season_totals |->
                                       tally_weeks(EmptyDict, all_data,
                                                   winners_of, DOMAIN all_data)])
    /\ UNCHANGED <<users, picks, session, now>>

\* ------------------------------------------------------------------ clock
Tick ==
    /\ now < MaxNow
    /\ now' = now + 1
    /\ UNCHANGED <<users, picks, session, pc, req, nreq>>

\* -------------------------------------------------------- specifications
\* Requests of different browsers overlap freely.
Next ==
    \/ \E b \in Browsers : index(b)
    \/ \E b \in Browsers, data \in CheckUserBodies : check_user(b, data)
    \/ \E b \in Browsers, form \in LoginForms : login_load(b, form)
    \/ \E b \in Browsers : login_finish(b)
    \/ \E b \in Browsers : logout(b)
    \/ \E b \in Browsers, week \in Weeks : week_view_get(b, week)
    \/ \E b \in Browsers, week \in Weeks :
           \E form \in PickForms(week) : week_view_post_load(b, week, form)
    \/ \E b \in Browsers : week_view_post_save(b)
    \/ \E b \in Browsers : scoreboard(b)
    \/ \E b \in Browsers : receive(b)
    \/ Tick

Spec == Init /\ [][Next]_vars

\* Requests are processed one at a time: one starts only when none is in
\* flight.
SeqNext ==
    \/ Quiet /\ \E b \in Browsers : index(b)
    \/ Quiet /\ \E b \in Browsers, data \in CheckUserBodies : check_user(b, data)
    \/ Quiet /\ \E b \in Browsers, form \in LoginForms : login_load(b, form)
    \/ \E b \in Browsers : login_finish(b)
    \/ Quiet /\ \E b \in Browsers : logout(b)
    \/ Quiet /\ \E b \in Browsers, week \in Weeks : week_view_get(b, week)
    \/ Quiet /\ \E b \in Browsers, week \in Weeks :
           \E form \in PickForms(week) : week_view_post_load(b, week, form)
    \/ \E b \in Browsers : week_view_post_save(b)
    \/ Quiet /\ \E b \in Browsers : scoreboard(b)
    \/ \E b \in Browsers : receive(b)
    \/ Tick

SeqSpec == Init /\ [][SeqNext]_vars

\* ================================================================ claims
\* Steps of the handlers, as the properties below name them.
SubmitSaveStep(b) == pc[b] = "submit_loaded" /\ pc'[b] = "done"
LoginFinishStep(b) == pc[b] = "login_loaded" /\ pc'[b] = "done"
LoginRespondsStep(b) ==
    /\ pc[b] \in {"idle", "login_loaded"}
    /\ pc'[b] = "done"
    /\ req'[b].kind = "login"
LoginFormOf(b) == IF pc[b] = "idle" THEN req'[b].form ELSE req[b].form

SubmitDone(b) == pc[b] = "done" /\ req[b].kind = "submit"
LoggedIn(b) == "user" \in DOMAIN session[b]

\* The stored entry of (week, user) in a Pick Document, if any.
HasEntry(doc, w, u) == w \in DOMAIN doc /\ u \in DOMAIN doc[w]
EntryOf(doc, w, u) == IF HasEntry(doc, w, u) THEN doc[w][u] ELSE EmptyDict
SameEntry(d1, d2, w, u) ==
    /\ HasEntry(d1, w, u) = HasEntry(d2, w, u)
    /\ EntryOf(d1, w, u) = EntryOf(d2, w, u)
SamePick(e1, e2, g) ==
    /\ (g \in DOMAIN e1) = (g \in DOMAIN e2)
    /\ g \in DOMAIN e1 => e1[g] = e2[g]
PairsOf(d1, d2) ==
    {<<w, u>> : w \in DOMAIN d1 \cup DOMAIN d2,
                u \in UNION ({DOMAIN d1[w] : w \in DOMAIN d1}
                                \cup {DOMAIN d2[w] : w \in DOMAIN d2})}

\* What the fetched schedule says of a submitted game, read off the event
\* dates directly: a kickoff is known when the game has an event whose date
\* is in the minute format.
KnownKickoff(r, g) == g \in DOMAIN r.dates /\ r.dates[g].fmt = "%H:%MZ"
Future(r, g) == KnownKickoff(r, g) /\ r.now < r.dates[g].minute
Passed(r, g) == KnownKickoff(r, g) /\ r.now >= r.dates[g].minute
PassedGames(r) == {g \in DOMAIN r.form : Passed(r, g)}

\* ------------------------------------------------------------------- C1
\* C1: in a submit, a pick for a game whose kickoff (as the fetched schedule
\* gives it) is after the request's time is stored and counted as saved; a
\* pick for a game whose kickoff is at or before that time is counted as
\* blocked and the stored pick of that game stays as it was. kickoff == now
\* is blocked.
C1_LockedFromKickoff ==
    [][\A b \in Browsers : SubmitSaveStep(b) =>
        LET r == req[b]
            before == EntryOf(picks, str(r.week), r.user)
            after == EntryOf(picks', str(r.week), r.user)
        IN  /\ \A g \in DOMAIN r.form :
                   Future(r, g) => g \in DOMAIN after /\ after[g] = r.form[g]
            /\ \A g \in DOMAIN r.form : Passed(r, g) => SamePick(before, after, g)
            /\ req'[b].blocked_count = Cardinality(PassedGames(r))
            /\ req'[b].saved_count =
                   Cardinality(DOMAIN r.form) - Cardinality(PassedGames(r))]_vars

\* A first submit of both games of week 1 at minute 0: game 101 kicks off at
\* minute 0 and is blocked at the boundary, game 102 is stored.
C1_Witness ==
    \E b \in Browsers :
        /\ SubmitDone(b) /\ LoggedIn(b) /\ now = 0 /\ nreq = 2
        /\ req[b].week = 1
        /\ req[b].saved_count = 1 /\ req[b].blocked_count = 1
        /\ DOMAIN EntryOf(picks, "1", session[b]["user"]) = {"102"}

\* ------------------------------------------------------------------- C2
\* "The given password matches the stored hash": the stored hash is a hash
\* of the given password.
IsHashOf(pwhash, password) ==
    \E salt \in Salts : pwhash = generate_password_hash(password, salt)

\* The one way a session user is set: a login that registers a new username
\* with a hash of its password, or whose password matches the stored hash.
GrantsOnlyByLogin(b) ==
    /\ (session'[b] # session[b] /\ "user" \in DOMAIN session'[b])
           => LoginFinishStep(b)
    /\ LoginFinishStep(b) =>
        LET r == req[b]
            granted == req'[b].outcome \in {"created", "ok"}
        IN  /\ granted =>
                /\ session'[b]["user"] = r.username
                /\ \/ /\ r.username \notin DOMAIN users
                      /\ r.username \in DOMAIN users'
                      /\ IsHashOf(users'[r.username], r.password)
                   \/ /\ r.username \in DOMAIN users
                      /\ IsHashOf(users[r.username], r.password)
            /\ ~granted => session'[b] = session[b]

WrongPassword(b) ==
    /\ LoginFinishStep(b)
    /\ req[b].username \in DOMAIN users
    /\ ~IsHashOf(users[req[b].username], req[b].password)

\* C2 as stated: a login sets the session user only by registering or by a
\* matching password, and after a login with an existing username and a
\* wrong password no session is set.
C2_NoSessionAfterWrongPassword ==
    [][\A b \in Browsers :
        /\ GrantsOnlyByLogin(b)
        /\ WrongPassword(b) =>
               /\ req'[b].outcome = "incorrect_password"
               /\ "user" \notin DOMAIN session'[b]]_vars

\* C2 amended: a login sets the session user only by registering or by a
\* matching password; a login with an existing username and a wrong password
\* fails, changes no account and leaves the session as it was.
C2_WrongPasswordKeepsSession ==
    [][\A b \in Browsers :
        /\ GrantsOnlyByLogin(b)
        /\ WrongPassword(b) =>
               /\ req'[b].outcome = "incorrect_password"
               /\ users' = users
               /\ session'[b] = session[b]]_vars

\* A wrong-password login answered in a browser that is logged in.
C2_Witness ==
    \E b \in Browsers :
        /\ pc[b] = "done" /\ req[b].kind = "login"
        /\ req[b].outcome = "incorrect_password"
        /\ LoggedIn(b)

\* ------------------------------------------------------------------- C3
EmptyAfterTrim(form) ==
    \/ strip(Get(form, "username", << >>)) = << >>
    \/ "password" \notin DOMAIN form
    \/ strip(form["password"]) = << >>

EmptyAsSent(form) ==
    \/ strip(Get(form, "username", << >>)) = << >>
    \/ "password" \notin DOMAIN form
    \/ form["password"] = << >>

\* C3 as stated: a login whose username or password is empty after trimming
\* fails with the validation error, the accounts are unchanged and no session
\* is set.
C3_TrimmedEmptyRejected ==
    [][\A b \in Browsers :
        (LoginRespondsStep(b) /\ EmptyAfterTrim(LoginFormOf(b))) =>
            /\ req'[b].outcome = "required"
            /\ users' = users
            /\ "user" \notin DOMAIN session'[b]]_vars

\* C3 amended: a login whose username is empty after trimming, or whose
\* password is missing or the empty string, fails with the validation error;
\* the accounts and the session are unchanged.
C3_EmptyRejected ==
    [][\A b \in Browsers :
        (LoginRespondsStep(b) /\ EmptyAsSent(LoginFormOf(b))) =>
            /\ req'[b].outcome = "required"
            /\ users' = users
            /\ session' = session]_vars

\* A login with a username and the empty password, answered with the
\* validation error.
C3_Witness ==
    \E b \in Browsers :
        /\ pc[b] = "done" /\ req[b].kind = "login"
        /\ req[b].outcome = "required"
        /\ strip(req[b].form["username"]) # << >>
        /\ "password" \in DOMAIN req[b].form
        /\ req[b].form["password"] = << >>

\* ------------------------------------------------------------------- C4
AllPassed(r) == DOMAIN r.form # {} /\ \A g \in DOMAIN r.form : Passed(r, g)

\* C4 as stated: a submit whose picks are all for games past kickoff reports
\* 0 saved and all blocked, and leaves picks.json exactly as it was.
C4_AllBlockedChangesNothing ==
    [][\A b \in Browsers : (SubmitSaveStep(b) /\ AllPassed(req[b])) =>
        /\ req'[b].saved_count = 0
        /\ req'[b].blocked_count = Cardinality(DOMAIN req[b].form)
        /\ picks' = picks]_vars

\* C4 amended: such a submit reports 0 saved and all blocked and leaves every
\* stored entry as it was; when the (week, user) pair had no entry, the save
\* adds an empty one for it, and nothing else.
C4_AllBlockedKeepsPicks ==
    [][\A b \in Browsers : (SubmitSaveStep(b) /\ AllPassed(req[b])) =>
        LET r == req[b]
            own == <<str(r.week), r.user>>
        IN  /\ req'[b].saved_count = 0
            /\ req'[b].blocked_count = Cardinality(DOMAIN r.form)
            /\ \A p \in PairsOf(picks, picks') :
                   IF p = own /\ ~HasEntry(picks, p[1], p[2])
                   THEN HasEntry(picks', p[1], p[2])
                            /\ picks'[p[1]][p[2]] = EmptyDict
                   ELSE SameEntry(picks, picks', p[1], p[2])
            /\ DOMAIN picks' = DOMAIN picks \cup {own[1]}
            /\ HasEntry(picks, own[1], own[2]) => picks' = picks]_vars

\* The first submit of a user, all blocked: the empty entry is on disk.
C4_Witness ==
    \E b \in Browsers :
        /\ SubmitDone(b) /\ LoggedIn(b) /\ nreq = 2
        /\ req[b].saved_count = 0 /\ req[b].blocked_count = 1
        /\ HasEntry(picks, str(req[b].week), session[b]["user"])
        /\ picks[str(req[b].week)][session[b]["user"]] = EmptyDict

\* ------------------------------------------------------------------- C5
AccountsKept == \A u \in DOMAIN users : u \in DOMAIN users' /\ users'[u] = users[u]

\* C5 as stated: a stored account stays, with the same hash, in every later
\* state, also when requests overlap.
C5_AccountsNeverChange == [][AccountsKept]_vars

\* C5 amended: a stored account stays, with the same hash, through every
\* step except the save of a login that loaded users.json before another
\* login saved it (two logins that overlap); with logins that do not
\* overlap, it stays for ever.
C5_AccountsKeptUnlessStaleLogin ==
    [][AccountsKept
        \/ \E b \in Browsers : LoginFinishStep(b) /\ req[b].users # users]_vars

\* Two accounts, registered one after the other, both on disk.
C5_Witness ==
    /\ Cardinality(DOMAIN users) = 2
    /\ Quiet
    /\ nreq >= 3

\* ------------------------------------------------------------------- C6
\* C6: a submit's save overwrites picks.json with the request's own copy:
\* every other (week, user) entry is what the request loaded, whatever was
\* saved since. Last writer wins.
C6_LastWriterWins ==
    [][\A b \in Browsers : SubmitSaveStep(b) =>
        LET r == req[b]
        IN  /\ DOMAIN picks' = DOMAIN r.all_data
            /\ \A p \in PairsOf(picks', r.all_data) :
                   p # <<str(r.week), r.user>>
                       => SameEntry(picks', r.all_data, p[1], p[2])]_vars

\* The lost update: two users' submits for the same week both answered with
\* a saved pick, and one of them has no pick on disk.
C6_Witness ==
    \E b1, b2 \in Browsers :
        /\ b1 # b2
        /\ SubmitDone(b1) /\ SubmitDone(b2)
        /\ LoggedIn(b1) /\ LoggedIn(b2)
        /\ session[b1]["user"] # session[b2]["user"]
        /\ req[b1].week = req[b2].week
        /\ req[b1].saved_count >= 1 /\ req[b2].saved_count >= 1
        /\ nreq = 4
        /\ EntryOf(picks, str(req[b1].week), session[b1]["user"]) = EmptyDict
        /\ EntryOf(picks, str(req[b2].week), session[b2]["user"]) # EmptyDict

\* ------------------------------------------------------------------- C7
\* C7: right after a submit is saved, the same submit again (same user, week,
\* form and schedule, at the time of the save or any later time) saves the
\* same document.
C7_ResubmitIdempotent ==
    [][\A b \in Browsers : SubmitSaveStep(b) =>
        \A later \in now..MaxNow :
            LET r == req[b]
                again == [r EXCEPT
                             !.all_data = with_entries(picks', str(r.week), r.user),
                             !.now = later]
            IN  save_json(PICKS_FILE, submit_result(again).all_data) = picks']_vars

\* A pick for game 102 saved at minute 0: the same submit at minute 1 finds
\* the game locked.
C7_Witness ==
    \E b \in Browsers :
        /\ SubmitDone(b) /\ LoggedIn(b) /\ now = 0
        /\ req[b].week = 1 /\ req[b].saved_count >= 1
        /\ "102" \in DOMAIN EntryOf(picks, "1", session[b]["user"])
        /\ WorldGame("102").kickoff <= MaxNow

\* ------------------------------------------------------------------- C8
RECURSIVE SumOver(_, _)
SumOver(S, f) ==
    IF S = {} THEN 0
    ELSE LET x == CHOOSE y \in S : TRUE IN f[x] + SumOver(S \ {x}, f)

\* C8: on the scoreboard, for every player of any stored week, `correct` is
\* the sum over the stored weeks of the number of the player's picks equal
\* to the week's resolved winner of the game, and `weeks_played` the number
\* of stored weeks with an entry of the player.
C8_SeasonTotals ==
    \A b \in Browsers :
        (pc[b] = "done" /\ req[b].kind = "scoreboard" /\ req[b].outcome = "page") =>
            LET r == req[b]
                players == UNION {DOMAIN r.all_data[w] : w \in DOMAIN r.all_data}
                weeksOf(p) == {w \in DOMAIN r.all_data : p \in DOMAIN r.all_data[w]}
                score(p, w) ==
                    Cardinality({g \in DOMAIN r.all_data[w][p] :
                        /\ g \in DOMAIN r.winners[w]
                        /\ r.winners[w][g] = r.all_data[w][p][g]})
            IN  /\ DOMAIN r.season_totals = players
                /\ \A p \in players :
                    /\ r.season_totals[p].correct
                           = SumOver(weeksOf(p), [w \in weeksOf(p) |-> score(p, w)])
                    /\ r.season_totals[p].weeks_played = Cardinality(weeksOf(p))

\* A player with a correct pick in each of two weeks.
C8_Witness ==
    \E b \in Browsers :
        /\ pc[b] = "done" /\ req[b].kind = "scoreboard" /\ req[b].outcome = "page"
        /\ \E p \in DOMAIN req[b].season_totals :
               /\ req[b].season_totals[p].correct = 2
               /\ req[b].season_totals[p].weeks_played = 2

\* ------------------------------------------------------------------- C9
\* C9: with requests one at a time, picks.json changes only in the save of a
\* submit, made in a session whose user is the submitter, and only in the
\* entry of that (week, user).
C9_OnlyOwnSubmitWrites ==
    [][picks' # picks =>
        \E b \in Browsers :
            /\ SubmitSaveStep(b)
            /\ LoggedIn(b) /\ session[b]["user"] = req[b].user
            /\ \A p \in PairsOf(picks, picks') :
                   p # <<str(req[b].week), req[b].user>>
                       => SameEntry(picks, picks', p[1], p[2])]_vars

\* A submit saved next to another user's stored picks.
C9_Witness ==
    \E b \in Browsers :
        /\ SubmitDone(b) /\ LoggedIn(b)
        /\ req[b].saved_count >= 1
        /\ \E u \in DOMAIN picks[str(req[b].week)] :
               /\ u # session[b]["user"]
               /\ picks[str(req[b].week)][u] # EmptyDict
        /\ picks[str(req[b].week)][session[b]["user"]] # EmptyDict

\* ------------------------------------------------------------------ C10
\* C10: in a submit, a pick for a game without a known kickoff (the fetch
\* failed, the game is not in the fetched schedule, or its date does not
\* parse) is stored over any prior pick and counted as saved, never as
\* blocked, whatever the game's real kickoff.
C10_UnknownKickoffAccepted ==
    [][\A b \in Browsers : SubmitSaveStep(b) =>
        LET r == req[b]
            after == EntryOf(picks', str(r.week), r.user)
            unknown == {g \in DOMAIN r.form : ~KnownKickoff(r, g)}
        IN  /\ \A g \in unknown : g \in DOMAIN after /\ after[g] = r.form[g]
            /\ req'[b].saved_count >= Cardinality(unknown)
            /\ req'[b].blocked_count
                   <= Cardinality(DOMAIN r.form) - Cardinality(unknown)]_vars

\* Game 101 kicks off at minute 0, so a known kickoff never lets a pick for
\* it through: here it is stored, by a submit at minute 1.
C10_Witness ==
    \E b \in Browsers :
        /\ SubmitDone(b) /\ LoggedIn(b) /\ nreq = 2
        /\ now > WorldGame("101").kickoff
        /\ req[b].week = 1
        /\ req[b].saved_count >= 1 /\ req[b].blocked_count = 0
        /\ "101" \in DOMAIN EntryOf(picks, "1", session[b]["user"])

====
